---- MODULE Spec2Model ----
(***************************************************************************)
(* Semantic retrieval subsystem of the study planner:                      *)
(*   - chunk_text_stream, the chunk generator      (SpecChunker)           *)
(*   - main, the ingestion build                   (SpecBuild)             *)
(*   - _ensure_loaded / retrieve_context, called from the request threads  *)
(*     of the web application                      (SpecRetriever)         *)
(*   - likely_header and the first pass of main    (SpecHeader)            *)
(*   - the search and hit loop of retrieve_context (SpecSearch)            *)
(* Strings the code slices or normalises are sequences of one-character    *)
(* strings.  Python's None is the value None.                              *)
(***************************************************************************)
EXTENDS Integers, Sequences, FiniteSets, TLC

VARIABLES
    \* ---- chunk_text_stream called on its own ----
    ck_args,        \* the call's arguments [txt, size, overlap]
    ck_gen,         \* the generator's frame
    ck_out,         \* the chunks yielded so far, in order
    ck_pc,          \* "call" | "running" | "done"
    \* ---- build_vector_store.main ----
    doc,            \* the PDF: a sequence of pages
    BATCH_MAX_CHUNKS,
    chapter_for_page,
    index,          \* the vectors added to the flat index, in order
    all_previews,
    all_meta,
    batch_texts,
    batch_meta,
    total_chunks,
    bd_p,           \* the page index p of the second loop
    bd_gen,         \* the frame of the page's chunk_text_stream
    bd_pc,          \* position in main
    bd_err,         \* the exception propagating out of main (None if none)
    INDEX_FILE,     \* data/faiss.index
    META_FILE,      \* data/index.pkl
    \* ---- rag_retriever ----
    disk,           \* per collection key, the two artifact files
    cache,          \* _cache
    embedder,       \* _embedder (None or the model object)
    embedder_built, \* how many times SentenceTransformer(EMBED_MODEL) has run
    cache_writes,   \* per key, how many times line 37 has stored an entry
    th,             \* per request thread, its frame in retrieve_context
    calls,          \* retrieve_context calls started so far
    \* ---- the first pass of main, line by line ----
    hd_doc,         \* the PDF: per page, the lines of its text
    hd_p,           \* the page index p of the first loop
    hd_last_header, \* last_header
    hd_chapter_for_page,
    hd_pc,          \* "first_pass" | "done"
    \* ---- lines 42-58 of retrieve_context on one loaded collection ----
    sr_index,       \* the index's vectors
    sr_previews,
    sr_meta,
    sr_query,       \* the query's vector q
    sr_top_k,
    sr_found,       \* the search result: pairs <<position, distance>> in rank order
    sr_hits,        \* the list returned
    sr_err,         \* the exception raised (None if none)
    sr_pc,          \* "search" | "collect" | "done"
    \* ---- a rebuild (main's two writes) beside the running retriever ----
    rb_pc,          \* "idle" | "wrote_index" | "done"
    \* ---- the chunks of a page with cross_page_overlap ----
    xp_args,        \* [prev, page, size, overlap]
    xp_stored,      \* the chunk texts stored for the page
    xp_pc,          \* "call" | "done"
    \* ---- update_task on one study task ----
    tk_variant,     \* which of the two applications runs
    tk_task,        \* the task's row as committed: [status, completion_percent]
    tk_resp,        \* the status code of the last response (0 before any)
    tk_calls        \* update_task calls made so far

ck_vars == <<ck_args, ck_gen, ck_out, ck_pc>>
bd_vars == <<doc, BATCH_MAX_CHUNKS, chapter_for_page, index, all_previews, all_meta,
             batch_texts, batch_meta, total_chunks, bd_p, bd_gen, bd_pc, bd_err,
             INDEX_FILE, META_FILE>>
rt_vars == <<disk, cache, embedder, embedder_built, cache_writes, th, calls>>
hd_vars == <<hd_doc, hd_p, hd_last_header, hd_chapter_for_page, hd_pc>>
sr_vars == <<sr_index, sr_previews, sr_meta, sr_query, sr_top_k, sr_found, sr_hits, sr_err, sr_pc>>
xp_vars == <<xp_args, xp_stored, xp_pc>>
tk_vars == <<tk_variant, tk_task, tk_resp, tk_calls>>
ext_vars == <<rb_pc, xp_vars, tk_vars>>
vars == <<ck_vars, bd_vars, rt_vars, hd_vars, sr_vars, ext_vars>>

None == "None"

\* A file that has not been written.
NotWritten == [written |-> FALSE]

-----------------------------------------------------------------------------
(* Bounds of the model *)

MaxTextLen == 5     \* longest txt handed to chunk_text_stream on its own
MaxSize == 3        \* largest size / overlap argument tried
MaxPageLen == 3     \* longest page text tried where two pages are chunked together
MaxYield == MaxTextLen + 1   \* yields followed per call (an endless generator is cut here)

-----------------------------------------------------------------------------
(* Python string operations on sequences of characters *)

Whitespace == {" ", "\n"}

Min(a, b) == IF a < b THEN a ELSE b
Max(a, b) == IF a > b THEN a ELSE b

\* All sequences over C of length at most m.
SeqsUpTo(C, m) == UNION {[1..k -> C] : k \in 0..m}

\* s[a:b] with Python's rules: a negative bound counts from the end, and both
\* bounds are clipped to [0, len(s)].
PyIndex(i, len) == IF i < 0 THEN Max(i + len, 0) ELSE Min(i, len)

PySlice(s, a, b) ==
    LET lo == PyIndex(a, Len(s))
        hi == PyIndex(b, Len(s))
    IN  IF lo < hi THEN SubSeq(s, lo + 1, hi) ELSE <<>>

RECURSIVE LStrip(_)
LStrip(s) == IF s # <<>> /\ Head(s) \in Whitespace THEN LStrip(Tail(s)) ELSE s

RECURSIVE RStrip(_)
RStrip(s) ==
    IF s # <<>> /\ s[Len(s)] \in Whitespace THEN RStrip(SubSeq(s, 1, Len(s) - 1)) ELSE s

\* str.strip()
Strip(s) == RStrip(LStrip(s))

-----------------------------------------------------------------------------
(* chunk_text_stream(txt, size, overlap): the generator's frame and its steps *)

GenDone == [txt |-> <<>>, n |-> 0, start |-> 0, size |-> 0, overlap |-> 0, done |-> TRUE]

\* Lines 38-45: the frame when the generator first runs up to its loop test.
GenNewZeroOverlap(txt, size, overlap) ==
    IF txt = <<>> THEN GenDone
    ELSE LET s == Strip(txt)
         IN  [txt |-> s, n |-> Len(s), start |-> 0, size |-> size, overlap |-> 0,
              done |-> ~(0 < Len(s))]

GenNew(txt, size, overlap) ==
    IF txt = <<>> THEN GenDone
    ELSE LET s == Strip(txt)
         IN  [txt |-> s, n |-> Len(s), start |-> 0, size |-> size,
              overlap |-> IF overlap < 0 THEN 0 ELSE overlap,
              done |-> ~(0 < Len(s))]

\* Lines 46-48: end of the window that starts at g.start.
GenEndWholeRest(g) == g.n

GenEnd(g) == IF g.start + g.size > g.n THEN g.n ELSE g.start + g.size

\* Line 49: the chunk yielded, with the window it was cut from.
GenChunk(g) ==
    [text |-> PySlice(g.txt, g.start, GenEnd(g)), start |-> g.start, end |-> GenEnd(g)]

\* Line 53: the next window's start.
NextStartDropsOne(end, overlap) == end - overlap + 1

NextStart(end, overlap) == end - overlap

\* Lines 50-55 and the loop test of line 45: the frame after the yield resumes.
GenAdvanceUntilStartPastEnd(g) ==
    LET s == NextStart(GenEnd(g), g.overlap)
    IN  IF s < 0 \/ s >= g.n THEN [g EXCEPT !.start = s, !.done = TRUE]
        ELSE [g EXCEPT !.start = s]

GenAdvance(g) ==
    LET end == GenEnd(g)
        s   == NextStart(end, g.overlap)
    IN  IF end = g.n THEN [g EXCEPT !.done = TRUE]
        ELSE IF s < 0 \/ s >= g.n THEN [g EXCEPT !.start = s, !.done = TRUE]
        ELSE [g EXCEPT !.start = s]

-----------------------------------------------------------------------------
(* Idle values of the subsystems: each specification runs one of them and     *)
(* leaves the others where they start.                                        *)

CkIdle ==
    /\ ck_args = [txt |-> <<>>, size |-> 1, overlap |-> 0]
    /\ ck_gen = GenDone
    /\ ck_out = <<>>
    /\ ck_pc = "done"

BdIdle ==
    /\ doc = <<>>
    /\ BATCH_MAX_CHUNKS = 1
    /\ chapter_for_page = <<>>
    /\ index = <<>>
    /\ all_previews = <<>>
    /\ all_meta = <<>>
    /\ batch_texts = <<>>
    /\ batch_meta = <<>>
    /\ total_chunks = 0
    /\ bd_p = 0
    /\ bd_gen = GenDone
    /\ bd_pc = "done"
    /\ bd_err = None
    /\ INDEX_FILE = NotWritten
    /\ META_FILE = NotWritten

RtIdle ==
    /\ disk = <<>>
    /\ cache = <<>>
    /\ embedder = None
    /\ embedder_built = 0
    /\ cache_writes = <<>>
    /\ th = <<>>
    /\ calls = 0

HdIdle ==
    /\ hd_doc = <<>>
    /\ hd_p = 0
    /\ hd_last_header = <<>>
    /\ hd_chapter_for_page = <<>>
    /\ hd_pc = "done"

SrIdle ==
    /\ sr_index = <<>>
    /\ sr_previews = <<>>
    /\ sr_meta = <<>>
    /\ sr_query = 0
    /\ sr_top_k = 1
    /\ sr_found = <<>>
    /\ sr_hits = <<>>
    /\ sr_err = None
    /\ sr_pc = "done"

RbIdle == rb_pc = "idle"

XpIdle ==
    /\ xp_args = [prev |-> <<>>, page |-> <<>>, size |-> 1, overlap |-> 0]
    /\ xp_stored = <<>>
    /\ xp_pc = "done"

TkIdle ==
    /\ tk_variant = None
    /\ tk_task = [status |-> "not_started", completion_percent |-> 0]
    /\ tk_resp = 0
    /\ tk_calls = 0

ExtIdle == RbIdle /\ XpIdle /\ TkIdle

-----------------------------------------------------------------------------
(* SpecChunker: one call of chunk_text_stream, its yields followed one by one *)

TextChars == {"a", "b", " "}

ChunkerInit ==
    /\ ck_args \in [txt : SeqsUpTo(TextChars, MaxTextLen),
                    size : (0 - 1)..MaxSize,
                    overlap : (0 - 1)..MaxSize]
    /\ ck_gen = GenDone
    /\ ck_out = <<>>
    /\ ck_pc = "call"
    /\ BdIdle
    /\ RtIdle
    /\ HdIdle
    /\ SrIdle
    /\ ExtIdle

\* The caller asks for the first chunk: the body runs to the first yield or returns.
CkCall ==
    /\ ck_pc = "call"
    /\ LET g == GenNew(ck_args.txt, ck_args.size, ck_args.overlap)
       IN  /\ ck_gen' = g
           /\ ck_pc' = IF g.done THEN "done" ELSE "running"
    /\ UNCHANGED <<ck_args, ck_out, bd_vars, rt_vars, hd_vars, sr_vars, ext_vars>>

\* The generator yields txt[start:end]; when resumed it runs to the next yield or returns.
CkYield ==
    /\ ck_pc = "running"
    /\ Len(ck_out) < MaxYield
    /\ ck_out' = Append(ck_out, GenChunk(ck_gen))
    /\ LET g == GenAdvance(ck_gen)
       IN  /\ ck_gen' = g
           /\ ck_pc' = IF g.done THEN "done" ELSE "running"
    /\ UNCHANGED <<ck_args, bd_vars, rt_vars, hd_vars, sr_vars, ext_vars>>

ChunkerNext == CkCall \/ CkYield

SpecChunker == ChunkerInit /\ [][ChunkerNext]_vars

-----------------------------------------------------------------------------
(* Properties of chunk_text_stream *)

ValidChunkArgs ==
    /\ ck_args.size >= 1
    /\ ck_args.overlap >= 0
    /\ ck_args.overlap < ck_args.size

\* The first chunk whole, every later chunk without its first o characters.
RECURSIVE NonOverlapping(_, _, _)
NonOverlapping(out, k, o) ==
    IF k > Len(out) THEN <<>>
    ELSE (IF k = 1 THEN out[k].text ELSE SubSeq(out[k].text, o + 1, Len(out[k].text)))
         \o NonOverlapping(out, k + 1, o)

\* C9 (chunk coverage): for size S >= 1 and overlap 0 <= O < S the generator
\* returns within Len(txt) yields, and the first chunk followed by every later
\* chunk minus its first O characters is exactly the stripped input text.
C9_ChunkCoverage ==
    ValidChunkArgs =>
        /\ ck_pc = "running" => Len(ck_out) < MaxYield
        /\ ck_pc = "done" =>
             NonOverlapping(ck_out, 1, ck_args.overlap) = Strip(ck_args.txt)

C9_Witness ==
    /\ ValidChunkArgs
    /\ ck_pc = "done"
    /\ ck_args.overlap >= 1
    /\ Len(ck_out) >= 2
    /\ Strip(ck_args.txt) # ck_args.txt
    /\ Len(ck_out[Len(ck_out)].text) < ck_args.size

\* C10 (overlap bound, as the spec states it): for size S >= 1 and any overlap
\* O >= 0, each chunk after the first starts exactly min(O, S-1) characters
\* before the end of the chunk yielded before it.
C10_OverlapBound ==
    (ck_args.size >= 1 /\ ck_args.overlap >= 0) =>
        \A k \in 1..(Len(ck_out) - 1) :
            ck_out[k + 1].start = ck_out[k].end - Min(ck_args.overlap, ck_args.size - 1)

\* The stripped text's length N and the step S - O between window starts.
StrippedLen == Len(Strip(ck_args.txt))
Step == ck_args.size - ck_args.overlap

\* Every chunk yielded so far is the k-th window: it starts at (k-1)*step and
\* ends at min(start + S, N).
WindowsInOrder ==
    \A k \in 1..Len(ck_out) :
        /\ ck_out[k].start = (k - 1) * Step
        /\ ck_out[k].end = Min(ck_out[k].start + ck_args.size, StrippedLen)
        /\ ck_out[k].text = SubSeq(Strip(ck_args.txt), ck_out[k].start + 1, ck_out[k].end)

\* C11 (window enumeration, as the claim states it): for S >= 1 and 0 <= O < S
\* the generator yields one window for every start 0, step, 2*step, ... below
\* N, and returns only when the next start would be at or past N.
C11_WindowPerStartBelowN ==
    ValidChunkArgs =>
        /\ WindowsInOrder
        /\ ck_pc = "done" =>
              Len(ck_out) = Cardinality({s \in 0..(StrippedLen - 1) : s % Step = 0})

\* C11 (window enumeration, amended): for S >= 1 and 0 <= O < S the generator
\* yields, in order, one window for every start 0, step, 2*step, ... up to and
\* including the first whose window ends at N, each window ending at
\* min(start + S, N); it returns as soon as a window has ended at N, and yields
\* nothing when N = 0.
C11_WindowEnumeration ==
    ValidChunkArgs =>
        /\ WindowsInOrder
        /\ \A k \in 1..(Len(ck_out) - 1) : ck_out[k].end < StrippedLen
        /\ ck_pc = "running" => (ck_out = <<>> \/ ck_out[Len(ck_out)].end < StrippedLen)
        /\ ck_pc = "done" =>
              IF StrippedLen = 0 THEN ck_out = <<>>
              ELSE ck_out # <<>> /\ ck_out[Len(ck_out)].end = StrippedLen

\* A call that has returned although the next start, one step on, is below N.
C11_Witness ==
    /\ ValidChunkArgs
    /\ ck_pc = "done"
    /\ Len(ck_out) >= 2
    /\ ck_out[Len(ck_out)].start + Step < StrippedLen

\* C12 (finite producer): for size >= 1 and any overlap >= 0 the generator
\* terminates.  Its frame is a function of start alone, so it terminates only
\* if a running generator is never about to cut the window of a start it has
\* already yielded.
C12_FiniteProducer ==
    (ck_args.size >= 1 /\ ck_args.overlap >= 0 /\ ck_pc = "running") =>
        \A k \in 1..Len(ck_out) : ck_out[k].start # ck_gen.start

\* C13 (non-positive size): for size <= 0 the generator yields no chunk.
C13_NonPositiveSizeYieldsNothing ==
    ck_args.size <= 0 => ck_out = <<>>

\* C14 (chunk lengths): for S >= 1 and any overlap >= 0 no chunk is longer than
\* S, and every chunk that is followed by another one has length exactly S.
C14_ChunkLengths ==
    (ck_args.size >= 1 /\ ck_args.overlap >= 0) =>
        \A k \in 1..Len(ck_out) :
            /\ Len(ck_out[k].text) <= ck_args.size
            /\ (k < Len(ck_out) \/ ck_pc = "running") => Len(ck_out[k].text) = ck_args.size

\* A returned call with overlapping windows: a full first chunk and a shorter
\* last one.
C14_Witness ==
    /\ ck_args.size >= 2
    /\ ck_args.overlap >= 1
    /\ ck_pc = "done"
    /\ Len(ck_out) >= 2
    /\ Len(ck_out[Len(ck_out)].text) < ck_args.size
    /\ Len(ck_out[1].text) = ck_args.size

-----------------------------------------------------------------------------
(* build_vector_store.main: the ingestion build *)

MaxPages == 2       \* pages of the PDF
MaxDocChars == 4    \* characters of the PDF's text, all pages together
MaxBatch == 2       \* largest BATCH_MAX_CHUNKS tried
CHUNK_SIZE == 2     \* line 27 sets 1600; scaled to the model's page lengths
PREVIEW_LEN == 1    \* line 30 sets 240; scaled likewise
CHUNK_OVERLAP == 0

UnknownChapter == "Unknown Chapter"
PdfBaseName == "anatomy.pdf"       \* os.path.basename(PDF_PATH)

PageChars == {"a", "\n"}
HeaderLines == {"CHAPTER 1", "SECTION 2"}

\* A page: its get_text("text"), and the first line of it that chapter_regex or
\* likely_header accepts (lines 86-92 leave it in header; None if no line does,
\* and none does on a page of whitespace only).
PagesOfLen(l) ==
    {pg \in [text : [1..l -> PageChars], header : HeaderLines \cup {None}] :
        Strip(pg.text) = <<>> => pg.header = None}

\* Documents of at most k pages and c characters.
RECURSIVE Docs(_, _)
Docs(k, c) ==
    IF k = 0 THEN {<<>>}
    ELSE {<<>>} \cup
         UNION {{<<pg>> \o d : pg \in PagesOfLen(l), d \in Docs(k - 1, c - l)} : l \in 0..c}

\* Lines 82-95: the header of each page from p on, carried forward.
RECURSIVE HeaderPass(_, _, _)
HeaderPass(d, p, last_header) ==
    IF p >= Len(d) THEN <<>>
    ELSE LET header == d[p + 1].header
             last   == IF header # None THEN header ELSE last_header
         IN  <<last>> \o HeaderPass(d, p + 1, last)

ChapterForPage(d) ==
    LET hs == HeaderPass(d, 0, UnknownChapter)
    IN  [p \in 0..(Len(d) - 1) |-> hs[p + 1]]

\* embedder.encode of one text: the vector stands for the text it encodes.
Embed(t) == <<"vector of", t>>

\* Line 122: t[:PREVIEW_LEN].replace("\n", " ")
Preview(t) ==
    LET cut == PySlice(t, 0, PREVIEW_LEN)
    IN  [i \in 1..Len(cut) |-> IF cut[i] = "\n" THEN " " ELSE cut[i]]

\* Lines 135-139: the metadata of a chunk of page p.
MetaForZeroBased(p) ==
    [file |-> PdfBaseName,
     chapter |-> IF p \in DOMAIN chapter_for_page THEN chapter_for_page[p]
                 ELSE UnknownChapter,
     page |-> p]

MetaFor(p) ==
    [file |-> PdfBaseName,
     chapter |-> IF p \in DOMAIN chapter_for_page THEN chapter_for_page[p]
                 ELSE UnknownChapter,
     page |-> p + 1]

\* Line 110: flush_batch returns at once when nothing is buffered.
NothingBelowThreshold(texts) == Len(texts) < BATCH_MAX_CHUNKS

NothingToFlush(texts) == texts = <<>>

\* Lines 113-119: index.add of the batch's embeddings.
IndexAdd(idx, texts) == idx \o [i \in 1..Len(texts) |-> Embed(texts[i])]

\* Lines 121-123: the previews and metadata of the batch, appended in order.
PreviewsDropLast(previews, texts) ==
    previews \o [i \in 1..(Len(texts) - 1) |-> Preview(texts[i])]

AppendPreviews(previews, texts) ==
    previews \o [i \in 1..Len(texts) |-> Preview(texts[i])]

MetaReversed(meta, metas) ==
    meta \o [i \in 1..Len(metas) |-> metas[Len(metas) + 1 - i]]

AppendMeta(meta, metas) == meta \o metas

\* Lines 113-119 when encode raises: index.add is never reached.
IndexAddedBeforeRaise(idx, texts) == IndexAdd(idx, texts)

IndexWhenEncodeRaises(idx, texts) == idx

\* flush_batch() with texts/metas buffered; ok: whether encode returns or raises.
\* pc is where main goes on when flush_batch returns.
FlushBatch(texts, metas, ok, pc) ==
    IF NothingToFlush(texts)
    THEN /\ UNCHANGED <<index, all_previews, all_meta, bd_err>>
         /\ batch_texts' = texts
         /\ batch_meta' = metas
         /\ bd_pc' = pc
    ELSE IF ok
    THEN /\ index' = IndexAdd(index, texts)
         /\ all_previews' = AppendPreviews(all_previews, texts)
         /\ all_meta' = AppendMeta(all_meta, metas)
         /\ batch_texts' = <<>>
         /\ batch_meta' = <<>>
         /\ bd_pc' = pc
         /\ UNCHANGED bd_err
    ELSE /\ index' = IndexWhenEncodeRaises(index, texts)
         /\ UNCHANGED <<all_previews, all_meta>>
         /\ batch_texts' = texts
         /\ batch_meta' = metas
         /\ bd_err' = "encode raised"
         /\ bd_pc' = "failed"

BuildInit ==
    /\ doc \in Docs(MaxPages, MaxDocChars)
    /\ BATCH_MAX_CHUNKS \in 1..MaxBatch
    /\ chapter_for_page = <<>>
    /\ index = <<>>
    /\ all_previews = <<>>
    /\ all_meta = <<>>
    /\ batch_texts = <<>>
    /\ batch_meta = <<>>
    /\ total_chunks = 0
    /\ bd_p = 0
    /\ bd_gen = GenDone
    /\ bd_pc = "first_pass"
    /\ bd_err = None
    /\ INDEX_FILE = NotWritten
    /\ META_FILE = NotWritten
    /\ CkIdle
    /\ RtIdle
    /\ HdIdle
    /\ SrIdle
    /\ ExtIdle

\* Lines 81-106: the first pass over the pages, then the empty index and buffers.
FirstPass ==
    /\ bd_pc = "first_pass"
    /\ chapter_for_page' = ChapterForPage(doc)
    /\ bd_pc' = "pages"
    /\ UNCHANGED <<doc, BATCH_MAX_CHUNKS, index, all_previews, all_meta, batch_texts,
                   batch_meta, total_chunks, bd_p, bd_gen, bd_err, INDEX_FILE, META_FILE,
                   ck_vars, rt_vars, hd_vars, sr_vars, ext_vars>>

\* Lines 129-133: the next page; an empty page is skipped, another starts its generator.
NextPage ==
    /\ bd_pc = "pages"
    /\ bd_p < Len(doc)
    /\ LET page_text == Strip(doc[bd_p + 1].text)
           g == GenNew(page_text, CHUNK_SIZE, CHUNK_OVERLAP)
       IN  IF page_text = <<>> \/ g.done
           THEN /\ bd_p' = bd_p + 1
                /\ UNCHANGED <<bd_gen, bd_pc>>
           ELSE /\ bd_gen' = g
                /\ bd_pc' = "chunks"
                /\ UNCHANGED bd_p
    /\ UNCHANGED <<doc, BATCH_MAX_CHUNKS, chapter_for_page, index, all_previews, all_meta,
                   batch_texts, batch_meta, total_chunks, bd_err, INDEX_FILE, META_FILE,
                   ck_vars, rt_vars, hd_vars, sr_vars, ext_vars>>

\* Lines 133-142: one chunk of the page is buffered, and the batch flushed when full.
NextChunk ==
    /\ bd_pc = "chunks"
    /\ LET texts == Append(batch_texts, GenChunk(bd_gen).text)
           metas == Append(batch_meta, MetaFor(bd_p))
           g     == GenAdvance(bd_gen)
           pc    == IF g.done THEN "pages" ELSE "chunks"
       IN  /\ total_chunks' = total_chunks + 1
           /\ IF Len(texts) >= BATCH_MAX_CHUNKS
              THEN \E ok \in BOOLEAN : FlushBatch(texts, metas, ok, pc)
              ELSE /\ batch_texts' = texts
                   /\ batch_meta' = metas
                   /\ bd_pc' = pc
                   /\ UNCHANGED <<index, all_previews, all_meta, bd_err>>
           /\ IF bd_pc' = "failed" THEN UNCHANGED <<bd_gen, bd_p>>
              ELSE IF g.done THEN bd_gen' = GenDone /\ bd_p' = bd_p + 1
              ELSE bd_gen' = g /\ UNCHANGED bd_p
    /\ UNCHANGED <<doc, BATCH_MAX_CHUNKS, chapter_for_page, INDEX_FILE, META_FILE,
                   ck_vars, rt_vars, hd_vars, sr_vars, ext_vars>>

\* Lines 144-146: the final flush after the last page.
FinalFlush ==
    /\ bd_pc = "pages"
    /\ bd_p >= Len(doc)
    /\ \E ok \in BOOLEAN : FlushBatch(batch_texts, batch_meta, ok, "write_index")
    /\ UNCHANGED <<doc, BATCH_MAX_CHUNKS, chapter_for_page, total_chunks, bd_p, bd_gen,
                   INDEX_FILE, META_FILE, ck_vars, rt_vars, hd_vars, sr_vars, ext_vars>>

\* Line 149: faiss.write_index(index, INDEX_FILE)
WriteIndex ==
    /\ bd_pc = "write_index"
    /\ INDEX_FILE' = [written |-> TRUE, vectors |-> index]
    /\ bd_pc' = "write_meta"
    /\ UNCHANGED <<doc, BATCH_MAX_CHUNKS, chapter_for_page, index, all_previews, all_meta,
                   batch_texts, batch_meta, total_chunks, bd_p, bd_gen, bd_err, META_FILE,
                   ck_vars, rt_vars, hd_vars, sr_vars, ext_vars>>

\* Lines 150-151: pickle.dump of the previews and the metadata
WriteMeta ==
    /\ bd_pc = "write_meta"
    /\ META_FILE' = [written |-> TRUE, previews |-> all_previews, metadata |-> all_meta]
    /\ bd_pc' = "done"
    /\ UNCHANGED <<doc, BATCH_MAX_CHUNKS, chapter_for_page, index, all_previews, all_meta,
                   batch_texts, batch_meta, total_chunks, bd_p, bd_gen, bd_err, INDEX_FILE,
                   ck_vars, rt_vars, hd_vars, sr_vars, ext_vars>>

BuildNext == FirstPass \/ NextPage \/ NextChunk \/ FinalFlush \/ WriteIndex \/ WriteMeta

SpecBuild == BuildInit /\ [][BuildNext]_vars

-----------------------------------------------------------------------------
(* Properties of the build *)

\* Every chunk a generator frame yields from g on, in order.
RECURSIVE GenAll(_)
GenAll(g) == IF g.done THEN <<>> ELSE <<GenChunk(g)>> \o GenAll(GenAdvance(g))

\* The chunks of page p (0-based) of d, each with its page.
PageChunks(d, p) ==
    LET page_text == Strip(d[p + 1].text)
        cs == IF page_text = <<>> THEN <<>>
              ELSE GenAll(GenNew(page_text, CHUNK_SIZE, CHUNK_OVERLAP))
    IN  [i \in 1..Len(cs) |-> [text |-> cs[i].text, page |-> p]]

\* The chunks of d in document order: pages ascending, windows in order.
RECURSIVE DocChunksFrom(_, _)
DocChunksFrom(d, p) ==
    IF p >= Len(d) THEN <<>> ELSE PageChunks(d, p) \o DocChunksFrom(d, p + 1)

DocChunks(d) == DocChunksFrom(d, 0)

BuildWrites == {"write_index", "write_meta", "done"}

\* C1 (parallel arrays): between any two steps of the build, so after every
\* flush_batch call, all_previews, all_meta and the index have the same length;
\* when main has finished that length is total_chunks, the number of chunks the
\* chunking of the document produces.
C1_ParallelArrays ==
    /\ Len(all_previews) = Len(all_meta)
    /\ Len(all_meta) = Len(index)
    /\ bd_pc = "done" =>
         /\ Len(index) = total_chunks
         /\ total_chunks = Len(DocChunks(doc))

C1_Witness ==
    /\ bd_pc = "done"
    /\ total_chunks >= 3
    /\ BATCH_MAX_CHUNKS = 2

\* C2 (alignment): position i of the index, of all_previews and of all_meta all
\* come from the i-th chunk of the document in document order, whatever
\* BATCH_MAX_CHUNKS is; the finished build has every chunk and persists these arrays.
C2_Alignment ==
    LET E == DocChunks(doc)
        chapters == ChapterForPage(doc)
    IN  /\ Len(index) <= Len(E)
        /\ Len(all_previews) = Len(index)
        /\ Len(all_meta) = Len(index)
        /\ \A i \in 1..Len(index) :
              /\ index[i] = Embed(E[i].text)
              /\ all_previews[i] = Preview(E[i].text)
              /\ all_meta[i] = [file |-> PdfBaseName,
                                chapter |-> chapters[E[i].page],
                                page |-> E[i].page + 1]
        /\ bd_pc = "done" =>
              /\ Len(index) = Len(E)
              /\ INDEX_FILE = [written |-> TRUE, vectors |-> index]
              /\ META_FILE = [written |-> TRUE, previews |-> all_previews,
                              metadata |-> all_meta]

C2_Witness ==
    /\ bd_pc = "done"
    /\ BATCH_MAX_CHUNKS = 2
    /\ Len(index) = 3
    /\ index[1] # index[2]
    /\ all_meta[2].page # all_meta[3].page
    /\ all_meta[2].chapter # all_meta[3].chapter

\* C7 (final flush): when the build is at or past the write step the batch
\* buffer is empty and every chunk counted is in the index.
C7_BufferFlushedBeforeWrite ==
    bd_pc \in BuildWrites =>
        /\ batch_texts = <<>>
        /\ batch_meta = <<>>
        /\ Len(index) = total_chunks

C7_Witness ==
    /\ bd_pc = "write_index"
    /\ total_chunks > BATCH_MAX_CHUNKS
    /\ total_chunks % BATCH_MAX_CHUNKS # 0

\* C8 (failed batch): once encode has raised, the build has stopped with the
\* error, the index, all_previews and all_meta hold exactly the chunks of the
\* batches flushed before (the failed batch is still in the buffer, none of it
\* appended), and neither artifact file has been written.
C8_FailedBatchAppendsNothing ==
    bd_err # None =>
        /\ bd_pc = "failed"
        /\ batch_texts # <<>>
        /\ Len(batch_meta) = Len(batch_texts)
        /\ Len(index) = total_chunks - Len(batch_texts)
        /\ Len(all_previews) = total_chunks - Len(batch_texts)
        /\ Len(all_meta) = total_chunks - Len(batch_texts)
        /\ INDEX_FILE = NotWritten
        /\ META_FILE = NotWritten

C8_Witness ==
    /\ bd_err # None
    /\ bd_pc = "failed"
    /\ Len(index) > 0
    /\ Len(batch_texts) > 0

\* C16 (page and chapter of a chunk): every chunk taken so far, flushed or
\* still buffered, is a window of the page whose 1-based number its metadata
\* carries, that page's text is not empty, and its chapter is the heading the
\* first pass assigned to that page; in the finished build every page has as
\* many chunks under its own number as its text has windows, so an empty page
\* has none and moves no later page's number or heading.
C16_PageAndChapterOfChunk ==
    LET metas == all_meta \o batch_meta
        vecs  == IndexAdd(index, batch_texts)
    IN  /\ Len(vecs) = Len(metas)
        /\ \A i \in 1..Len(metas) :
              LET p == metas[i].page - 1
              IN  /\ p \in 0..(Len(doc) - 1)
                  /\ Strip(doc[p + 1].text) # <<>>
                  /\ metas[i].chapter = chapter_for_page[p]
                  /\ \E k \in 1..Len(PageChunks(doc, p)) :
                         vecs[i] = Embed(PageChunks(doc, p)[k].text)
        /\ bd_pc = "done" =>
              \A p \in 0..(Len(doc) - 1) :
                  Cardinality({i \in 1..Len(metas) : metas[i].page = p + 1})
                      = Len(PageChunks(doc, p))

\* A finished build of two pages, the first of whitespace only and without a
\* header: the chunks of the second carry page 2 and the second page's header.
C16_Witness ==
    /\ bd_pc = "done"
    /\ Len(doc) = 2
    /\ doc[1].text # <<>>
    /\ Strip(doc[1].text) = <<>>
    /\ doc[1].header = None
    /\ doc[2].header # None
    /\ Len(all_meta) >= 2
    /\ all_meta[1].page = 2
    /\ all_meta[1].chapter = doc[2].header

-----------------------------------------------------------------------------
(* rag_retriever: _course_key, _ensure_loaded, retrieve_context *)

MaxCalls == 2       \* retrieve_context calls made in one run
MaxTopK == 2        \* largest top_k tried

EMBED_MODEL == "sentence-transformers/all-MiniLM-L6-v2"

\* The request threads of the web application's thread pool.
Threads == {"t1", "t2"}

\* Course strings callers pass, and query strings.
Courses == {<<"A">>, <<" ", "a">>, <<"a", " ", "B">>}
Queries == {"q1", "q2"}

\* str.lower() on the letters of Courses.
LowerChar(c) == IF c = "A" THEN "a" ELSE IF c = "B" THEN "b" ELSE c

\* Line 17: (course or "").strip().lower().replace(" ", "_"); for a string,
\* course or "" is the string itself.
_course_key_untrimmed(course) ==
    [i \in 1..Len(course) |-> IF LowerChar(course[i]) = " " THEN "_" ELSE LowerChar(course[i])]

_course_key(course) ==
    LET s == Strip(course)
    IN  [i \in 1..Len(s) |-> IF LowerChar(s[i]) = " " THEN "_" ELSE LowerChar(s[i])]

CollectionKeys == {_course_key(c) : c \in Courses}

\* Lines 19-22: the directory under DATA_ROOT (by name; <<>> is DATA_ROOT
\* itself, which os.path.join gives for an empty name) and the two file names.
_paths_for(course) ==
    [root |-> _course_key(course), index_file |-> "faiss.index", meta_file |-> "index.pkl"]

\* What a build for key k left on disk: the index (its vectors, one number
\* each) and the pickled previews and metadata.
BuiltIndex(k) == [built_for |-> k, vectors |-> <<1, 4>>]

BuiltMeta(k) ==
    [built_for |-> k,
     previews |-> <<<<"p", "1">> \o k, <<"p", "2">> \o k>>,
     metadata |-> <<[file |-> PdfBaseName, chapter |-> "CHAPTER 1", page |-> 1],
                    [file |-> PdfBaseName, chapter |-> "SECTION 2", page |-> 2]>>]

\* What a later build leaves in the same two files: one chunk more.
RebuiltIndex(k) == [built_for |-> k, vectors |-> <<4, 1, 7>>]

RebuiltMeta(k) ==
    [built_for |-> k,
     previews |-> <<<<"r", "1">> \o k, <<"r", "2">> \o k, <<"r", "3">> \o k>>,
     metadata |-> <<[file |-> PdfBaseName, chapter |-> "CHAPTER 1", page |-> 1],
                    [file |-> PdfBaseName, chapter |-> "CHAPTER 1", page |-> 2],
                    [file |-> PdfBaseName, chapter |-> "SECTION 2", page |-> 3]>>]

\* Lines 31-34: what faiss.read_index and pickle.load return for a file that
\* holds the build `version` of key k.
IndexFile(k, version) == IF version = "rebuilt" THEN RebuiltIndex(k) ELSE BuiltIndex(k)
MetaFile(k, version) == IF version = "rebuilt" THEN RebuiltMeta(k) ELSE BuiltMeta(k)

\* _embedder.encode([query]): the query's vector.
QueryVector(query) == IF query = "q1" THEN 2 ELSE 5

SquaredL2(v, q) == (v - q) * (v - q)

\* faiss pads a result shorter than top_k with position -1 and the largest float.
PadPosition == 0 - 1
PadDistance == 1000000

\* The position among `left` nearest to q (the lowest position on a tie).
Farthest(vectors, q, left) ==
    CHOOSE i \in left :
        \A j \in left :
            \/ SquaredL2(vectors[i + 1], q) > SquaredL2(vectors[j + 1], q)
            \/ SquaredL2(vectors[i + 1], q) = SquaredL2(vectors[j + 1], q) /\ i <= j

Nearest(vectors, q, left) ==
    CHOOSE i \in left :
        \A j \in left :
            \/ SquaredL2(vectors[i + 1], q) < SquaredL2(vectors[j + 1], q)
            \/ SquaredL2(vectors[i + 1], q) = SquaredL2(vectors[j + 1], q) /\ i <= j

\* Line 43: index.search(q, top_k): top_k pairs <<position, distance>>, ascending.
RECURSIVE SearchFrom(_, _, _, _)
SearchFrom(vectors, q, k, left) ==
    IF k = 0 THEN <<>>
    ELSE IF left = {} THEN <<<<PadPosition, PadDistance>>>> \o SearchFrom(vectors, q, k - 1, left)
    ELSE LET i == Nearest(vectors, q, left)
         IN  <<<<i, SquaredL2(vectors[i + 1], q)>>>>
             \o SearchFrom(vectors, q, k - 1, left \ {i})

Search(idx, q, top_k) == SearchFrom(idx.vectors, q, top_k, 0..(Len(idx.vectors) - 1))

\* A dict is a function on the keys it holds, a key's null value is None.
EmptyDict == [k \in {} |-> None]

\* v is None, for a value v of any kind.
PyIsNone(v) == ToString(v) = ToString(None)

\* Line 47: meta[idx] or {}
OrEmptyDict(e) == IF PyIsNone(e) THEN EmptyDict ELSE e

\* m.get(key, default): the default stands in for a missing key only.
DictGet(m, key, default) == IF key \in DOMAIN m THEN m[key] ELSE default

\* Line 54: int(m.get("page", 0) or 0)
PageOf(m) ==
    LET x == DictGet(m, "page", 0)
    IN  IF PyIsNone(x) THEN 0 ELSE x

\* Lines 47-57: the hit for position idx found at `rank` with distance dist.
HitFromFirstMeta(rank, idx, dist, previews, meta) ==
    LET m == OrEmptyDict(meta[1])
    IN  [rank |-> rank,
         text |-> previews[idx + 1],
         source |-> [file |-> DictGet(m, "file", ""),
                     chapter |-> DictGet(m, "chapter", UnknownChapter),
                     page |-> PageOf(m)],
         distance |-> dist]

Hit(rank, idx, dist, previews, meta) ==
    LET m == OrEmptyDict(meta[idx + 1])
    IN  [rank |-> rank,
         text |-> previews[idx + 1],
         source |-> [file |-> DictGet(m, "file", ""),
                     chapter |-> DictGet(m, "chapter", UnknownChapter),
                     page |-> PageOf(m)],
         distance |-> dist]

\* Line 46: 0 <= idx < len(previews)
InBoundsAboveZero(idx, previews) == 0 < idx /\ idx < Len(previews)

InBounds(idx, previews) == 0 <= idx /\ idx < Len(previews)

\* Lines 44-58: the hits of a search result; meta[idx] raises IndexError when
\* previews has a position that meta has not.
RECURSIVE HitsFromRenumbered(_, _, _, _)
HitsFromRenumbered(found, rank, previews, meta) ==
    IF rank > Len(found) THEN <<>>
    ELSE LET idx == found[rank][1]
             rest == HitsFromRenumbered(found, rank + 1, previews, meta)
             kept == Cardinality({r \in 1..rank : InBounds(found[r][1], previews)})
         IN  IF InBounds(idx, previews)
             THEN <<Hit(kept, idx, found[rank][2], previews, meta)>> \o rest
             ELSE rest

RECURSIVE HitsFrom(_, _, _, _)
HitsFrom(found, rank, previews, meta) ==
    IF rank > Len(found) THEN <<>>
    ELSE LET idx == found[rank][1]
             rest == HitsFrom(found, rank + 1, previews, meta)
         IN  IF InBounds(idx, previews)
             THEN <<Hit(rank, idx, found[rank][2], previews, meta)>> \o rest
             ELSE rest

SearchRaises(found, previews, meta) ==
    \E r \in 1..Len(found) :
        /\ InBounds(found[r][1], previews)
        /\ found[r][1] >= Len(meta)

\* Line 27: ck in _cache
CacheHitNever(c, ck) == FALSE

CacheHit(c, ck) == ck \in DOMAIN c

\* Line 29: both artifact files exist.
EitherFileExists(files) == files.index # None \/ files.meta # None

BothFilesExist(files) == files.index # None /\ files.meta # None

\* Line 37: _cache[ck] = (index, previews, meta)
CacheStoreIndexOnly(c, ck, triple) ==
    [k \in DOMAIN c \cup {ck} |-> IF k = ck THEN <<triple[1], <<>>, <<>>>> ELSE c[k]]

CacheStore(c, ck, triple) ==
    [k \in DOMAIN c \cup {ck} |-> IF k = ck THEN triple ELSE c[k]]

IdleFrame ==
    [pc |-> "idle", course |-> <<>>, query |-> None, top_k |-> 0, ck |-> <<>>,
     index |-> None, previews |-> None, meta |-> None, result |-> None, error |-> None]

Raise(t, exc) == th' = [th EXCEPT ![t].pc = "raised", ![t].error = exc]

RetrieverInit ==
    /\ disk \in [CollectionKeys -> [index : {None} \cup {"built"}, meta : {None} \cup {"built"}]]
    /\ cache = <<>>
    /\ embedder = None
    /\ embedder_built = 0
    /\ cache_writes = [k \in CollectionKeys |-> 0]
    /\ th = [t \in Threads |-> IdleFrame]
    /\ calls = 0
    /\ CkIdle
    /\ BdIdle
    /\ HdIdle
    /\ SrIdle
    /\ ExtIdle

\* A request thread calls retrieve_context(course, query, top_k); lines 40 and 26.
CallWith(t, courses, queries, ks) ==
    /\ th[t].pc = "idle"
    /\ calls < MaxCalls
    /\ \E course \in courses, query \in queries, top_k \in ks :
          th' = [th EXCEPT ![t] = [IdleFrame EXCEPT !.pc = "check_cache",
                                                    !.course = course,
                                                    !.query = query,
                                                    !.top_k = top_k,
                                                    !.ck = _course_key(course)]]
    /\ calls' = calls + 1
    /\ UNCHANGED <<disk, cache, embedder, embedder_built, cache_writes, ck_vars, bd_vars, hd_vars, sr_vars, ext_vars>>

Call(t) == CallWith(t, Courses, Queries, 1..MaxTopK)

\* Line 27: if ck in _cache: return
CheckCache(t) ==
    /\ th[t].pc = "check_cache"
    /\ th' = [th EXCEPT ![t].pc = IF CacheHit(cache, th[t].ck) THEN "fetch" ELSE "check_files"]
    /\ UNCHANGED <<disk, cache, embedder, embedder_built, cache_writes, calls, ck_vars, bd_vars, hd_vars, sr_vars, ext_vars>>

\* Lines 28-30: the two paths, and FileNotFoundError unless both exist.
CheckFilesRemembersMiss(t) ==
    /\ th[t].pc = "check_files"
    /\ IF BothFilesExist(disk[_paths_for(th[t].ck).root])
       THEN /\ th' = [th EXCEPT ![t].pc = "read_index"]
            /\ UNCHANGED cache
       ELSE /\ Raise(t, "FileNotFoundError")
            /\ cache' = CacheStore(cache, th[t].ck,
                                   <<[built_for |-> th[t].ck, vectors |-> <<>>], <<>>, <<>>>>)
    /\ UNCHANGED <<disk, embedder, embedder_built, cache_writes, calls, ck_vars, bd_vars, hd_vars, sr_vars, ext_vars>>

CheckFiles(t) ==
    /\ th[t].pc = "check_files"
    /\ IF BothFilesExist(disk[_paths_for(th[t].ck).root])
       THEN th' = [th EXCEPT ![t].pc = "read_index"]
       ELSE Raise(t, "FileNotFoundError")
    /\ UNCHANGED <<disk, cache, embedder, embedder_built, cache_writes, calls, ck_vars, bd_vars, hd_vars, sr_vars, ext_vars>>

\* Line 31: faiss.read_index(index_path), which raises when the file is not there.
ReadIndex(t) ==
    /\ th[t].pc = "read_index"
    /\ LET k == _paths_for(th[t].ck).root
       IN  IF disk[k].index = None
           THEN Raise(t, "RuntimeError")
           ELSE th' = [th EXCEPT ![t].pc = "read_meta",
                                 ![t].index = IndexFile(k, disk[k].index)]
    /\ UNCHANGED <<disk, cache, embedder, embedder_built, cache_writes, calls, ck_vars, bd_vars, hd_vars, sr_vars, ext_vars>>

\* Lines 32-34: open and unpickle index.pkl; open raises when the file is not there.
ReadMeta(t) ==
    /\ th[t].pc = "read_meta"
    /\ LET k == _paths_for(th[t].ck).root
       IN  IF disk[k].meta = None
           THEN Raise(t, "FileNotFoundError (open)")
           ELSE th' = [th EXCEPT ![t].pc = "check_embedder",
                                 ![t].previews = MetaFile(k, disk[k].meta).previews,
                                 ![t].meta = MetaFile(k, disk[k].meta).metadata]
    /\ UNCHANGED <<disk, cache, embedder, embedder_built, cache_writes, calls, ck_vars, bd_vars, hd_vars, sr_vars, ext_vars>>

\* Line 35: if _embedder is None
EmbedderAssumedBuilt(t) ==
    /\ th[t].pc = "check_embedder"
    /\ th' = [th EXCEPT ![t].pc = "store"]
    /\ UNCHANGED <<disk, cache, embedder, embedder_built, cache_writes, calls, ck_vars, bd_vars, hd_vars, sr_vars, ext_vars>>

CheckEmbedder(t) ==
    /\ th[t].pc = "check_embedder"
    /\ th' = [th EXCEPT ![t].pc = IF embedder = None THEN "construct" ELSE "store"]
    /\ UNCHANGED <<disk, cache, embedder, embedder_built, cache_writes, calls, ck_vars, bd_vars, hd_vars, sr_vars, ext_vars>>

\* Line 36: _embedder = SentenceTransformer(EMBED_MODEL); the constructor loads
\* the model (other threads run meanwhile) and may raise.
Construct(t) ==
    /\ th[t].pc = "construct"
    /\ \E ok \in BOOLEAN :
          IF ok
          THEN /\ embedder' = EMBED_MODEL
               /\ embedder_built' = embedder_built + 1
               /\ th' = [th EXCEPT ![t].pc = "store"]
          ELSE /\ Raise(t, "EmbeddingModelUnavailable")
               /\ UNCHANGED <<embedder, embedder_built>>
    /\ UNCHANGED <<disk, cache, cache_writes, calls, ck_vars, bd_vars, hd_vars, sr_vars, ext_vars>>

\* Line 37: _cache[ck] = (index, previews, meta)
Store(t) ==
    /\ th[t].pc = "store"
    /\ cache' = CacheStore(cache, th[t].ck, <<th[t].index, th[t].previews, th[t].meta>>)
    /\ cache_writes' = [cache_writes EXCEPT ![th[t].ck] = @ + 1]
    /\ th' = [th EXCEPT ![t].pc = "fetch"]
    /\ UNCHANGED <<disk, embedder, embedder_built, calls, ck_vars, bd_vars, hd_vars, sr_vars, ext_vars>>

\* Line 41: index, previews, meta = _cache[_course_key(course)]
Fetch(t) ==
    /\ th[t].pc = "fetch"
    /\ LET k == _course_key(th[t].course)
       IN  IF k \notin DOMAIN cache
           THEN Raise(t, "KeyError")
           ELSE th' = [th EXCEPT ![t].pc = "search",
                                 ![t].index = cache[k][1],
                                 ![t].previews = cache[k][2],
                                 ![t].meta = cache[k][3]]
    /\ UNCHANGED <<disk, cache, embedder, embedder_built, cache_writes, calls, ck_vars, bd_vars, hd_vars, sr_vars, ext_vars>>

\* Lines 42-58: encode the query, search, build the hits, return them.
SearchAndReturn(t) ==
    /\ th[t].pc = "search"
    /\ IF embedder = None
       THEN Raise(t, "AttributeError")
       ELSE LET found == Search(th[t].index, QueryVector(th[t].query), th[t].top_k)
            IN  IF SearchRaises(found, th[t].previews, th[t].meta)
                THEN Raise(t, "IndexError")
                ELSE th' = [th EXCEPT ![t].pc = "returned",
                                      ![t].result = HitsFrom(found, 1, th[t].previews,
                                                             th[t].meta)]
    /\ UNCHANGED <<disk, cache, embedder, embedder_built, cache_writes, calls, ck_vars, bd_vars, hd_vars, sr_vars, ext_vars>>

\* The call is over (returned or raised) and the thread takes another request.
Finish(t) ==
    /\ th[t].pc \in {"returned", "raised"}
    /\ th' = [th EXCEPT ![t] = IdleFrame]
    /\ UNCHANGED <<disk, cache, embedder, embedder_built, cache_writes, calls, ck_vars, bd_vars, hd_vars, sr_vars, ext_vars>>

RetrieverNext ==
    \E t \in Threads :
        \/ Call(t)
        \/ CheckCache(t)
        \/ CheckFiles(t)
        \/ ReadIndex(t)
        \/ ReadMeta(t)
        \/ CheckEmbedder(t)
        \/ Construct(t)
        \/ Store(t)
        \/ Fetch(t)
        \/ SearchAndReturn(t)
        \/ Finish(t)

SpecRetriever == RetrieverInit /\ [][RetrieverNext]_vars

-----------------------------------------------------------------------------
(* Properties of the retriever *)

FileMissing(k) == disk[k].index = None \/ disk[k].meta = None

\* The triple a load of key k builds from k's artifacts.
LoadedTriple(k) == <<BuiltIndex(k), BuiltMeta(k).previews, BuiltMeta(k).metadata>>

\* C3 (missing collection): a retrieve_context call for a key one of whose two
\* artifact files is absent gets no further than the existence check: it ends
\* raising FileNotFoundError, with no result, and never returns a list.
C3_MissingArtifactRaises ==
    \A t \in Threads :
        (th[t].pc # "idle" /\ FileMissing(th[t].ck)) =>
            /\ th[t].pc \in {"check_cache", "check_files", "raised"}
            /\ th[t].result = None
            /\ th[t].pc = "raised" => th[t].error = "FileNotFoundError"

C3_Witness ==
    /\ th["t1"].pc = "raised"
    /\ th["t1"].error = "FileNotFoundError"
    /\ disk[th["t1"].ck].index # None
    /\ disk[th["t1"].ck].meta = None
    /\ th["t2"].pc = "raised"
    /\ th["t2"].error = "FileNotFoundError"
    /\ disk[th["t2"].ck].index = None
    /\ disk[th["t2"].ck].meta # None

\* What the key of a course string has to be, stated without the string
\* operations: the course is some spaces, a core that neither starts nor ends
\* with a space, and some spaces; the key is the core, letter by letter, in
\* lower case with "_" for " ".
KeyChar(ch) ==
    CASE ch = " " -> "_"
      [] ch = "A" -> "a"
      [] ch = "B" -> "b"
      [] OTHER -> ch

Normalizes(course, k) ==
    \E i \in 0..Len(course) :
        \E j \in 0..(Len(course) - i) :
            LET core == SubSeq(course, i + 1, Len(course) - j)
            IN  /\ \A n \in 1..i : course[n] = " "
                /\ \A n \in (Len(course) - j + 1)..Len(course) : course[n] = " "
                /\ core # <<>> => (core[1] # " " /\ core[Len(core)] # " ")
                /\ Len(k) = Len(core)
                /\ \A n \in 1..Len(core) : k[n] = KeyChar(core[n])

\* The pairs of a course string callers pass and a key in use that is its normal form.
NormalizedPairs == {p \in Courses \X CollectionKeys : Normalizes(p[1], p[2])}

InCall(t) == th[t].pc # "idle"

\* C23 (the normalized key is the identity of a collection): the key of every
\* call is its course trimmed, lower-cased and with "_" for " "; normalizing the
\* key again gives the key, so the directory _paths_for computes is named by the
\* cache key; two calls whose courses have the same normal form use the same
\* key and the same directory; and a call whose course has the normal form of a
\* key already cached goes from the line-27 check straight to the lookup, with
\* no further load.
C23_KeyIsCollectionIdentity ==
    /\ [](\A t \in Threads :
            InCall(t) =>
                /\ <<th[t].course, th[t].ck>> \in NormalizedPairs
                /\ _course_key(th[t].ck) = th[t].ck
                /\ _paths_for(th[t].ck).root = th[t].ck
                /\ _paths_for(th[t].course).root = th[t].ck
                /\ \A u \in Threads :
                      (InCall(u) /\ <<th[u].course, th[t].ck>> \in NormalizedPairs) =>
                          th[u].ck = th[t].ck)
    /\ [][\A t \in Threads :
            (th[t].pc = "check_cache" /\ th'[t].pc # "check_cache") =>
                \A k \in DOMAIN cache :
                    <<th[t].course, k>> \in NormalizedPairs =>
                        /\ th'[t].pc = "fetch"
                        /\ cache' = cache
                        /\ cache_writes' = cache_writes]_vars

\* Two calls with different course strings of one normal form have both
\* returned hits, and the key was loaded once.
C23_Witness ==
    /\ th["t1"].pc = "returned"
    /\ th["t2"].pc = "returned"
    /\ th["t1"].course # th["t2"].course
    /\ th["t1"].ck = th["t2"].ck
    /\ cache_writes[th["t1"].ck] = 1

\* C26 (a cached key implies a built embedder): in every state, also between
\* the steps of loads that run concurrently, a non-empty _cache comes with an
\* _embedder that is not None, and no call fails at line 42 for calling encode
\* on None.
C26_CachedImpliesEmbedder ==
    /\ DOMAIN cache # {} => embedder # None
    /\ \A t \in Threads : th[t].error # "AttributeError"

\* One thread has returned hits from a cached key while the other is in the
\* middle of loading another key.
C26_Witness ==
    /\ th["t1"].pc = "returned"
    /\ th["t2"].pc = "check_embedder"
    /\ th["t2"].ck # th["t1"].ck
    /\ th["t1"].ck \in DOMAIN cache
    /\ th["t2"].ck \notin DOMAIN cache

\* C4 (embedder built once, as the spec states it): SentenceTransformer(EMBED_MODEL)
\* runs at most once in the process.
C4_EmbedderBuiltAtMostOnce == embedder_built <= 1

\* C5 (each key loaded once, as the spec states it): line 37 stores an entry for
\* a key at most once.
C5_KeyLoadedAtMostOnce == \A k \in DOMAIN cache_writes : cache_writes[k] <= 1

\* C6 (no corruption): the cache holds entries for normalized keys only, each
\* the complete triple read from that key's two files; a caller that has taken
\* its triple from the cache holds that complete triple; and no call fails for
\* an entry that is missing or half built (the only errors are the missing
\* files and the embedding model).
C6_CacheNeverCorrupt ==
    /\ DOMAIN cache \subseteq CollectionKeys
    /\ \A k \in DOMAIN cache :
          /\ ~FileMissing(k)
          /\ cache[k] = LoadedTriple(k)
    /\ \A t \in Threads :
          /\ th[t].pc \in {"search", "returned"} =>
                <<th[t].index, th[t].previews, th[t].meta>>
                    = LoadedTriple(_course_key(th[t].course))
          /\ th[t].pc = "raised" =>
                th[t].error \in {"FileNotFoundError", "EmbeddingModelUnavailable"}

C6_Witness ==
    /\ th["t1"].pc = "returned"
    /\ th["t2"].pc = "returned"
    /\ th["t1"].ck = th["t2"].ck
    /\ th["t1"].course # th["t2"].course
    /\ cache_writes[th["t1"].ck] = 2

-----------------------------------------------------------------------------
(* The first pass of main, line by line: chapter_regex, likely_header and    *)
(* the carry-forward of last_header.  A line is a sequence of tokens: a word,*)
(* a digit or one space.                                                     *)

MaxHdrPages == 3    \* pages of the PDF in the first pass
MaxDocLines == 3    \* lines of text in the whole PDF

HeaderMinLen == 8   \* an ALL-CAPS line is a header from this length on

Tokens == {"Chapter", "SECTION", "UPPER", "LIMB", "ARM", "intro", "1", "2", " "}

\* str.lower() of a token.
TokenLower(t) ==
    CASE t = "Chapter" -> "chapter"
      [] t = "SECTION" -> "section"
      [] t = "UPPER" -> "upper"
      [] t = "LIMB" -> "limb"
      [] t = "ARM" -> "arm"
      [] OTHER -> t

\* len() of a token.
TokenLen(t) ==
    CASE t = "Chapter" -> 7
      [] t = "SECTION" -> 7
      [] t = "UPPER" -> 5
      [] t = "LIMB" -> 4
      [] t = "ARM" -> 3
      [] t = "intro" -> 5
      [] OTHER -> 1

DigitTokens == {"1", "2"}
\* Tokens with a cased character, and those of them with no lower-case one.
CasedTokens == {"Chapter", "SECTION", "UPPER", "LIMB", "ARM", "intro"}
UpperTokens == {"SECTION", "UPPER", "LIMB", "ARM"}

\* The lines the pages of the first pass are made of.
HeaderTestLines ==
    { <<"Chapter", " ", "1">>,
      <<" ", "SECTION", " ", "2">>,
      <<"UPPER", " ", "LIMB">>,
      <<"ARM", "1">>,
      <<"ARM">>,
      <<"intro", " ", "2">> }

RECURSIVE StrLen(_)
StrLen(s) == IF s = <<>> THEN 0 ELSE TokenLen(Head(s)) + StrLen(Tail(s))

\* str.isupper(): at least one cased character and no lower-case one.
IsUpper(s) ==
    /\ \E i \in 1..Len(s) : s[i] \in CasedTokens
    /\ \A i \in 1..Len(s) : s[i] \in CasedTokens => s[i] \in UpperTokens

\* s.replace(" ", "")
RECURSIVE WithoutSpaces(_)
WithoutSpaces(s) ==
    IF s = <<>> THEN <<>>
    ELSE (IF Head(s) = " " THEN <<>> ELSE <<Head(s)>>) \o WithoutSpaces(Tail(s))

\* s.lower().startswith(word + " ")
LowerStartsWith(s, word) == Len(s) >= 2 /\ TokenLower(s[1]) = word /\ s[2] = " "

\* The rest of s after its longest prefix of tokens in set.
RECURSIVE SkipAll(_, _)
SkipAll(s, set) == IF s # <<>> /\ Head(s) \in set THEN SkipAll(Tail(s), set) ELSE s

\* Line 32: chapter_regex.match(s), the pattern ^\s*Chapter\s+\d+\b.* without
\* regard to case.
chapter_regex_match(s) ==
    LET a == SkipAll(s, Whitespace)
        b == IF a = <<>> THEN <<>> ELSE SkipAll(Tail(a), Whitespace)
        c == SkipAll(b, DigitTokens)
    IN  /\ a # <<>>
        /\ TokenLower(Head(a)) = "chapter"
        /\ Len(b) < Len(a) - 1
        /\ Len(c) < Len(b)
        /\ (c = <<>> \/ Head(c) \in Whitespace)

\* Lines 57-72.
likely_header(line) ==
    LET s == Strip(line)
    IN  IF s = <<>> THEN FALSE
        ELSE \/ LowerStartsWith(s, "chapter")
             \/ LowerStartsWith(s, "section")
             \/ (IsUpper(s) /\ StrLen(s) >= HeaderMinLen)
             \/ (IsUpper(WithoutSpaces(s)) /\ \E i \in 1..Len(s) : s[i] \in DigitTokens)

\* Line 90: the test that makes the stripped line s the page's header.
IsHeaderCandidate(s) == chapter_regex_match(s) \/ likely_header(s)

\* Lines 86-92: the header found on a page, <<>> for None.
RECURSIVE FirstHeader(_)
FirstHeader(lines) ==
    IF lines = <<>> THEN <<>>
    ELSE LET s == Strip(Head(lines))
         IN  IF IsHeaderCandidate(s) THEN s ELSE FirstHeader(Tail(lines))

\* Lines 93-94: last_header after the page.
CarryNothing(header, last) == IF header # <<>> THEN header ELSE <<"Unknown Chapter">>

CarryForward(header, last) == IF header # <<>> THEN header ELSE last

\* The sentinel as a line of one token.
UnknownChapterLine == <<UnknownChapter>>

\* The number of lines on the first j pages, lens[i] being page i's.
RECURSIVE LinesBefore(_, _)
LinesBefore(lens, j) == IF j = 0 THEN 0 ELSE lens[j] + LinesBefore(lens, j - 1)

\* The document whose pages have lens[i] lines each, taken in order from lines.
LineDoc(lens, lines) ==
    [i \in 1..Len(lens) |->
        SubSeq(lines, LinesBefore(lens, i - 1) + 1, LinesBefore(lens, i))]

HeaderInit ==
    /\ \E k \in 0..MaxHdrPages :
          \E lens \in [1..k -> 0..MaxDocLines] :
              /\ LinesBefore(lens, k) <= MaxDocLines
              /\ \E lines \in [1..LinesBefore(lens, k) -> HeaderTestLines] :
                     hd_doc = LineDoc(lens, lines)
    /\ hd_p = 0
    /\ hd_last_header = UnknownChapterLine
    /\ hd_chapter_for_page = <<>>
    /\ hd_pc = "first_pass"
    /\ CkIdle
    /\ BdIdle
    /\ RtIdle
    /\ SrIdle
    /\ ExtIdle

\* Lines 84-95: one iteration of the first loop, for page hd_p.
HdPage ==
    /\ hd_pc = "first_pass"
    /\ hd_p < Len(hd_doc)
    /\ LET header == FirstHeader(hd_doc[hd_p + 1])
           last   == CarryForward(header, hd_last_header)
       IN  /\ hd_last_header' = last
           /\ hd_chapter_for_page' =
                  [q \in 0..hd_p |-> IF q = hd_p THEN last ELSE hd_chapter_for_page[q]]
    /\ hd_p' = hd_p + 1
    /\ UNCHANGED <<hd_doc, hd_pc, ck_vars, bd_vars, rt_vars, sr_vars, ext_vars>>

\* Line 84: range(len(doc)) is exhausted.
HdEnd ==
    /\ hd_pc = "first_pass"
    /\ hd_p = Len(hd_doc)
    /\ hd_pc' = "done"
    /\ UNCHANGED <<hd_doc, hd_p, hd_last_header, hd_chapter_for_page, ck_vars, bd_vars,
                   rt_vars, sr_vars, ext_vars>>

HeaderNext == HdPage \/ HdEnd

SpecHeader == HeaderInit /\ [][HeaderNext]_vars

-----------------------------------------------------------------------------
(* Properties of the first pass *)

\* The positions of the header candidates on page p, and whether it has one.
CandidateLines(p) ==
    {i \in 1..Len(hd_doc[p + 1]) : IsHeaderCandidate(Strip(hd_doc[p + 1][i]))}
HasCandidate(p) == CandidateLines(p) # {}

\* C15 (header carry-forward): the heading of a page the pass has reached is
\* the page's first header-candidate line if it has one, otherwise the heading
\* of the nearest earlier page that has one, and the sentinel if no page up to
\* it has one.
C15_HeaderCarryForward ==
    /\ DOMAIN hd_chapter_for_page = 0..(hd_p - 1)
    /\ \A p \in 0..(hd_p - 1) :
        LET earlier == {q \in 0..(p - 1) : HasCandidate(q)}
        IN  IF HasCandidate(p)
            THEN LET first == CHOOSE i \in CandidateLines(p) :
                                  \A j \in CandidateLines(p) : i <= j
                 IN  hd_chapter_for_page[p] = Strip(hd_doc[p + 1][first])
            ELSE IF earlier # {}
            THEN LET near == CHOOSE q \in earlier : \A r \in earlier : r <= q
                 IN  hd_chapter_for_page[p] = hd_chapter_for_page[near]
            ELSE hd_chapter_for_page[p] = <<"Unknown Chapter">>

\* Three pages: none with a header candidate, then one whose second and third
\* lines are different candidates, then one that inherits.
C15_Witness ==
    /\ hd_pc = "done"
    /\ Len(hd_doc) = 3
    /\ ~HasCandidate(0)
    /\ CandidateLines(1) = {2, 3}
    /\ Strip(hd_doc[2][2]) # Strip(hd_doc[2][3])
    /\ ~HasCandidate(2)
    /\ hd_chapter_for_page[0] # hd_chapter_for_page[2]

-----------------------------------------------------------------------------
(* SpecSearch: lines 42-58 of retrieve_context on one loaded collection,     *)
(* whose index, previews and metadata may differ in length and whose         *)
(* metadata entries may be null, empty or partial.                           *)

MaxVectors == 2     \* most vectors, previews and metadata entries of a collection

VectorValues == {1, 3, 4}
QueryVectors == {2, 5}

\* The preview stored at position i (1-based here).
PreviewOf(i) == <<"preview", i>>

\* The kinds of metadata entry index.pkl may hold at position i: a full dict,
\* None, {}, a dict without chapter and page, a dict whose values are null.
MetaShapes == 1..5

MetaEntry(shape, i) ==
    CASE shape = 1 -> [file |-> PdfBaseName, chapter |-> "CHAPTER 1", page |-> i]
      [] shape = 2 -> None
      [] shape = 3 -> EmptyDict
      [] shape = 4 -> [file |-> PdfBaseName]
      [] OTHER -> [file |-> PdfBaseName, chapter |-> None, page |-> None]

SearchInit ==
    /\ sr_index \in [vectors : SeqsUpTo(VectorValues, MaxVectors)]
    /\ \E n \in 0..MaxVectors : sr_previews = [i \in 1..n |-> PreviewOf(i)]
    /\ \E n \in 0..MaxVectors :
          \E shape \in [1..n -> MetaShapes] :
              sr_meta = [i \in 1..n |-> MetaEntry(shape[i], i)]
    /\ sr_query \in QueryVectors
    /\ sr_top_k \in 1..MaxTopK
    /\ sr_found = <<>>
    /\ sr_hits = <<>>
    /\ sr_err = None
    /\ sr_pc = "search"
    /\ CkIdle
    /\ BdIdle
    /\ RtIdle
    /\ HdIdle
    /\ ExtIdle

\* Lines 42-43: D, I = index.search(q, top_k)
SrSearch ==
    /\ sr_pc = "search"
    /\ sr_found' = Search(sr_index, sr_query, sr_top_k)
    /\ sr_pc' = "collect"
    /\ UNCHANGED <<sr_index, sr_previews, sr_meta, sr_query, sr_top_k, sr_hits, sr_err,
                   ck_vars, bd_vars, rt_vars, hd_vars, ext_vars>>

\* Lines 44-58: the loop over the result, then return out; meta[idx] raises
\* IndexError out of the call.
SrCollect ==
    /\ sr_pc = "collect"
    /\ IF SearchRaises(sr_found, sr_previews, sr_meta)
       THEN /\ sr_err' = "IndexError"
            /\ UNCHANGED sr_hits
       ELSE /\ sr_hits' = HitsFrom(sr_found, 1, sr_previews, sr_meta)
            /\ UNCHANGED sr_err
    /\ sr_pc' = "done"
    /\ UNCHANGED <<sr_index, sr_previews, sr_meta, sr_query, sr_top_k, sr_found,
                   ck_vars, bd_vars, rt_vars, hd_vars, ext_vars>>

SearchNext == SrSearch \/ SrCollect

SpecSearch == SearchInit /\ [][SearchNext]_vars

-----------------------------------------------------------------------------
(* Properties of the search and its hits *)

\* The collection has as many previews and metadata entries as vectors.
WellFormed ==
    /\ Len(sr_previews) = Len(sr_index.vectors)
    /\ Len(sr_meta) = Len(sr_index.vectors)

Returned == sr_pc = "done" /\ sr_err = None

\* C17 (bounds handling): on a well-formed collection of n chunks the call
\* returns, without error, min(top_k, n) hits ranked 1..min(top_k, n), each the
\* preview of a position of the collection and no two of the same position.
C17_BoundsHandling ==
    (WellFormed /\ sr_pc = "done") =>
        /\ sr_err = None
        /\ Len(sr_hits) = Min(sr_top_k, Len(sr_index.vectors))
        /\ \A r \in 1..Len(sr_hits) :
              /\ sr_hits[r].rank = r
              /\ \E i \in 1..Len(sr_previews) : sr_hits[r].text = sr_previews[i]
              /\ \A r2 \in 1..Len(sr_hits) : r2 # r => sr_hits[r2].text # sr_hits[r].text

\* top_k above the collection's size: one chunk, two asked for, one hit.
C17_Witness ==
    /\ WellFormed
    /\ sr_pc = "done"
    /\ Len(sr_index.vectors) = 1
    /\ sr_top_k = 2
    /\ Len(sr_found) = 2
    /\ Len(sr_hits) = 1

\* The expected hit of rank r is in the list returned.
Emitted(r, source) ==
    \E h \in 1..Len(sr_hits) :
        sr_hits[h] = [rank |-> r,
                      text |-> sr_previews[sr_found[r][1] + 1],
                      source |-> source,
                      distance |-> sr_found[r][2]]

\* C18 (index/metadata skew, as the claim states it): when the index has more
\* vectors than metadata entries or than previews, the call raises nothing and
\* returns a hit for every position found that has both.
C18_SkewIsNonFatal ==
    (sr_pc = "done" /\ (Len(sr_index.vectors) > Len(sr_meta)
                        \/ Len(sr_index.vectors) > Len(sr_previews))) =>
        /\ sr_err = None
        /\ \A r \in 1..Len(sr_found) :
              LET idx == sr_found[r][1]
              IN  (0 <= idx /\ idx < Len(sr_previews) /\ idx < Len(sr_meta)) =>
                      \E h \in 1..Len(sr_hits) : sr_hits[h].rank = r

\* The fields of a metadata entry e: a null or empty entry has none.
HasField(e, key) == ~PyIsNone(e) /\ key \in DOMAIN e
IsNull(e, key) == HasField(e, key) /\ PyIsNone(e[key])

MinDistance ==
    CHOOSE d \in {SquaredL2(sr_index.vectors[i], sr_query) : i \in 1..Len(sr_index.vectors)} :
        \A i \in 1..Len(sr_index.vectors) : d <= SquaredL2(sr_index.vectors[i], sr_query)

\* C20 (order of the hits): the hits returned are in the order of the search
\* result, so their ranks increase and their distances never decrease; on a
\* well-formed collection that is not empty the first hit has rank 1 and is the
\* preview of a vector at the least squared distance from the query.
C20_HitsInSearchOrder ==
    Returned =>
        /\ \A h \in 1..(Len(sr_hits) - 1) :
              /\ sr_hits[h].rank < sr_hits[h + 1].rank
              /\ sr_hits[h].distance <= sr_hits[h + 1].distance
        /\ \A h \in 1..Len(sr_hits) :
              /\ sr_hits[h].rank \in 1..Len(sr_found)
              /\ sr_hits[h].distance = sr_found[sr_hits[h].rank][2]
        /\ (WellFormed /\ sr_index.vectors # <<>>) =>
              /\ sr_hits # <<>>
              /\ sr_hits[1].rank = 1
              /\ sr_hits[1].distance = MinDistance
              /\ \E i \in 1..Len(sr_index.vectors) :
                    /\ SquaredL2(sr_index.vectors[i], sr_query) = MinDistance
                    /\ sr_hits[1].text = sr_previews[i]

\* Two chunks, the second one nearer to the query: it is returned first.
C20_Witness ==
    /\ Returned
    /\ WellFormed
    /\ Len(sr_hits) = 2
    /\ sr_hits[1].text = PreviewOf(2)
    /\ sr_hits[1].distance < sr_hits[2].distance

\* The places of the raw search result whose position has a preview.
KeptPlaces == {r \in 1..Len(sr_found) : 0 <= sr_found[r][1] /\ sr_found[r][1] < Len(sr_previews)}

\* C29 (rank is the place in the raw result): the hits are the kept places of
\* the raw result in order, each ranked by its place in the raw result and
\* carrying that place's preview and distance, so ranks increase strictly and
\* are 1..len(hits) exactly when no skipped place comes before a kept one.
C29_RankIsRawPlace ==
    Returned =>
        /\ Len(sr_hits) = Cardinality(KeptPlaces)
        /\ \A h \in 1..Len(sr_hits) :
              /\ sr_hits[h].rank \in KeptPlaces
              /\ Cardinality({r \in KeptPlaces : r <= sr_hits[h].rank}) = h
              /\ sr_hits[h].distance = sr_found[sr_hits[h].rank][2]
              /\ sr_hits[h].text = sr_previews[sr_found[sr_hits[h].rank][1] + 1]
        /\ \A h \in 1..(Len(sr_hits) - 1) : sr_hits[h].rank < sr_hits[h + 1].rank
        /\ (\A h \in 1..Len(sr_hits) : sr_hits[h].rank = h)
              <=> ~(\E r1 \in 1..Len(sr_found) : \E r2 \in KeptPlaces :
                       r1 < r2 /\ r1 \notin KeptPlaces)

\* The nearest vector has no preview and is skipped; the hit that follows it
\* in the raw result keeps rank 2 in a list of one.
C29_Witness ==
    /\ Returned
    /\ Len(sr_found) = 2
    /\ 1 \notin KeptPlaces
    /\ Len(sr_hits) = 1
    /\ sr_hits[1].rank = 2

-----------------------------------------------------------------------------
(* The retriever while build_vector_store.py runs again *)

\* build_vector_store.py lines 15-21: DATA_DIR is the scripts/data directory
\* itself, the one rag_retriever.py lines 7-9 call DATA_ROOT; INDEX_FILE and
\* META_FILE sit in it, not in a directory below it.
DATA_DIR == <<>>

ReloadCourses == {<<" ">>, <<"A">>}
ReloadQueries == {"q1"}
ReloadKeys == {_paths_for(c).root : c \in ReloadCourses} \cup {DATA_DIR}

ReloadInit ==
    /\ disk \in [ReloadKeys -> [index : {None} \cup {"built"}, meta : {None} \cup {"built"}]]
    /\ cache = <<>>
    /\ embedder = None
    /\ embedder_built = 0
    /\ cache_writes = [k \in ReloadKeys |-> 0]
    /\ th = [t \in Threads |-> IdleFrame]
    /\ calls = 0
    /\ CkIdle
    /\ BdIdle
    /\ HdIdle
    /\ SrIdle
    /\ ExtIdle

\* build_vector_store.py line 149: faiss.write_index(index, str(INDEX_FILE))
WriteIndexFile ==
    /\ rb_pc = "idle"
    /\ disk' = [disk EXCEPT ![DATA_DIR].index = "rebuilt"]
    /\ rb_pc' = "wrote_index"
    /\ UNCHANGED <<cache, embedder, embedder_built, cache_writes, th, calls, ck_vars, bd_vars, hd_vars, sr_vars, xp_vars, tk_vars>>

\* build_vector_store.py lines 150-151: pickle.dump(...) into META_FILE
WriteMetaFile ==
    /\ rb_pc = "wrote_index"
    /\ disk' = [disk EXCEPT ![DATA_DIR].meta = "rebuilt"]
    /\ rb_pc' = "done"
    /\ UNCHANGED <<cache, embedder, embedder_built, cache_writes, th, calls, ck_vars, bd_vars, hd_vars, sr_vars, xp_vars, tk_vars>>

ReloadCall(t) == CallWith(t, ReloadCourses, ReloadQueries, 1..MaxTopK)

ReloadNext ==
    \/ \E t \in Threads :
          \/ ReloadCall(t)
          \/ CheckCache(t)
          \/ CheckFiles(t)
          \/ ReadIndex(t)
          \/ ReadMeta(t)
          \/ CheckEmbedder(t)
          \/ Construct(t)
          \/ Store(t)
          \/ Fetch(t)
          \/ SearchAndReturn(t)
          \/ Finish(t)
    \/ WriteIndexFile
    \/ WriteMetaFile

SpecReload == ReloadInit /\ [][ReloadNext]_vars

\* C21 (a cached key stays as it was loaded): no step removes a key from _cache
\* or changes the triple cached for it, whatever happens to the files meanwhile,
\* so later retrieve_context calls for the key keep getting the same results.
C21_CachedEntryNeverChanges ==
    [][\A k \in DOMAIN cache : k \in DOMAIN cache' /\ cache'[k] = cache[k]]_vars

\* Thread t is in a retrieve_context call that found its key in _cache at
\* line 27, or is past _ensure_loaded (lines 41-58).
OnCachedPath(t) ==
    \/ th[t].pc = "check_cache" /\ th[t].ck \in DOMAIN cache
    \/ th[t].pc \in {"fetch", "search"}

\* C22 (a call for a cached key only reads): every step of a retrieve_context
\* call whose key is in _cache at the line-27 check leaves _cache, _embedder and
\* the artifact files as they are, and the call goes on to the lookup and the
\* search without entering the code that checks or reads the files.
C22_CachedCallIsPureRead ==
    [][\A t \in Threads :
          (th'[t].pc # th[t].pc /\ OnCachedPath(t)) =>
              /\ cache' = cache
              /\ cache_writes' = cache_writes
              /\ embedder' = embedder
              /\ embedder_built' = embedder_built
              /\ disk' = disk
              /\ th'[t].pc \in {"fetch", "search", "returned", "raised"}]_vars

\* Both threads have returned hits for the same key after one load of it, so
\* one of the two calls found the key cached; the files were rewritten meanwhile.
C22_Witness ==
    /\ th["t1"].pc = "returned"
    /\ th["t2"].pc = "returned"
    /\ th["t1"].ck = th["t2"].ck
    /\ cache_writes[th["t1"].ck] = 1
    /\ embedder_built = 1
    /\ rb_pc = "done"

\* Thread t is inside _ensure_loaded, past the cache check and before line 37.
Loading(t) ==
    th[t].pc \in {"check_files", "read_index", "read_meta", "check_embedder", "construct"}

C28_CachedTripleFromOneBuild ==
    \A k \in DOMAIN cache :
        /\ Len(cache[k][1].vectors) = Len(cache[k][2])
        /\ Len(cache[k][2]) = Len(cache[k][3])
        /\ \E version \in {"built", "rebuilt"} :
              /\ cache[k][1] = IndexFile(k, version)
              /\ cache[k][2] = MetaFile(k, version).previews
              /\ cache[k][3] = MetaFile(k, version).metadata

\* The two files as a finished run of the build leaves them.
BuildOutput == [index |-> "rebuilt", meta |-> "rebuilt"]

\* C25 (the build writes where the retriever reads): once the build has written
\* its two files, the directory _paths_for derives from a course's key holds
\* exactly those files, for every course the collection may be built for.
C25_BuildWritesWhereRetrieverReads ==
    rb_pc = "done" => \A c \in ReloadCourses : disk[_paths_for(c).root] = BuildOutput

-----------------------------------------------------------------------------
(* Chunking a page with the tail of the page before it (cross_page_overlap) *)

XpChars == {"a", "b", " "}

\* page_text of a page that is chunked: stripped and not empty.
PageTexts == {s \in SeqsUpTo(XpChars, MaxPageLen) : s # <<>> /\ Strip(s) = s}

\* The carry-over: the last `overlap` characters of the previous page's text.
CarryOver(prev, overlap) == IF overlap > 0 THEN PySlice(prev, 0 - overlap, Len(prev)) ELSE <<>>

\* The first chunk without the part of it that repeats the carry: the longest
\* tail of the carry the chunk starts with is cut off.
StripCarry(text, carry) ==
    LET fits(k) == /\ k <= Len(text)
                   /\ SubSeq(text, 1, k) = SubSeq(carry, Len(carry) - k + 1, Len(carry))
        m == CHOOSE k \in 0..Len(carry) :
                 fits(k) /\ \A j \in (k + 1)..Len(carry) : ~fits(j)
    IN  SubSeq(text, m + 1, Len(text))

\* What is stored for the page: the chunks of carry + page, the first of them
\* without the carried part.
CrossPageChunks(prev, page, size, overlap) ==
    LET carry == CarryOver(prev, overlap)
        cs == GenAll(GenNew(carry \o page, size, overlap))
    IN  [i \in 1..Len(cs) |->
            IF i = 1 THEN [cs[i] EXCEPT !.text = StripCarry(cs[i].text, carry)] ELSE cs[i]]

CrossPageInit ==
    /\ xp_args \in {a \in [prev : PageTexts, page : PageTexts,
                           size : 2..MaxSize, overlap : 1..(MaxSize - 1)] :
                       a.overlap < a.size}
    /\ xp_stored = <<>>
    /\ xp_pc = "page"
    /\ CkIdle
    /\ BdIdle
    /\ RtIdle
    /\ HdIdle
    /\ SrIdle
    /\ RbIdle
    /\ TkIdle

\* The page after `prev` is chunked and its chunks are stored.
ChunkNextPage ==
    /\ xp_pc = "page"
    /\ xp_stored' = CrossPageChunks(xp_args.prev, xp_args.page, xp_args.size, xp_args.overlap)
    /\ xp_pc' = "done"
    /\ UNCHANGED <<xp_args, ck_vars, bd_vars, rt_vars, hd_vars, sr_vars, rb_pc, tk_vars>>

CrossPageNext == ChunkNextPage

SpecCrossPage == CrossPageInit /\ [][CrossPageNext]_vars

-----------------------------------------------------------------------------
(* update_task: PATCH /{student_id}/tasks/{task_id}, in its two variants *)

MaxUpdates == 3     \* update_task requests in one run

Variants == {"study_planner", "gemini_rag"}

\* Students 1 and 2 exist; the one study task has id 1 and belongs to student 1.
StudentIds == {1, 2}
TaskOwner == 1
TaskId == 1

\* What a client may send: ids, a status (None when the parameter is absent)
\* and a completion_percent (given or absent).
RequestStudentIds == {1, 2, 3}
RequestTaskIds == {1, 2}
StatusArgs == {None, "", "not_started", "in_progress", "done", "paused"}
PercentValues == {0 - 1, 0, 1, 50, 99, 100, 101}
PercentArgs ==
    {[given |-> FALSE, value |-> 0]} \cup {[given |-> TRUE, value |-> v] : v \in PercentValues}

ValidStatuses == {"not_started", "in_progress", "done"}

\* entities.py lines 40-41: the column defaults of a new StudyTask.
NewTask == [status |-> "not_started", completion_percent |-> 0]

\* _ensure_student and the 404 test of update_task.
TaskFound(student_id, task_id) ==
    /\ student_id \in StudentIds
    /\ task_id = TaskId
    /\ TaskOwner = student_id

\* study_planner, lines 80-86: the status block (entered when status is truthy).
StatusBlock(t, status) ==
    [t EXCEPT !.status = status,
              !.completion_percent = IF status = "done" THEN 100 ELSE @]

\* study_planner, lines 87-95: the completion_percent block.
PercentBlock(t, percent) ==
    [t EXCEPT !.completion_percent = percent,
              !.status = IF percent = 100 THEN "done"
                         ELSE IF percent > 0 /\ @ = "not_started" THEN "in_progress"
                         ELSE @]

\* gemini-rag, lines 222-230: the status block (entered when status is not None).
StatusBlockGeminiRag(t, status) ==
    [t EXCEPT !.status = status,
              !.completion_percent = IF status = "done" THEN 100
                                     ELSE IF status = "not_started" THEN 0
                                     ELSE @]

\* gemini-rag, lines 232-242: the completion_percent block.
PercentBlockGeminiRag(t, percent) ==
    [t EXCEPT !.completion_percent = percent,
              !.status = IF percent = 100 THEN "done"
                         ELSE IF percent = 0 THEN "not_started"
                         ELSE "in_progress"]

\* The handler from the row it loaded to its response: the status code and the
\* row as the database holds it afterwards. An HTTPException leaves the session
\* without a commit, so what the handler assigned before raising is dropped.
Respond(t, status_given, status, percent, t1, t2) ==
    IF status_given /\ status \notin ValidStatuses THEN [code |-> 400, task |-> t]
    ELSE IF percent.given /\ ~(0 <= percent.value /\ percent.value <= 100)
         THEN [code |-> 400, task |-> t]
         ELSE [code |-> 200, task |-> t2]

update_task_result(t, status, percent) ==
    LET status_given == status # None /\ status # ""
        t1 == IF status_given THEN StatusBlock(t, status) ELSE t
        t2 == IF percent.given THEN PercentBlock(t1, percent.value) ELSE t1
    IN  Respond(t, status_given, status, percent, t1, t2)

update_task_result_gemini_rag(t, status, percent) ==
    LET status_given == status # None
        t1 == IF status_given THEN StatusBlockGeminiRag(t, status) ELSE t
        t2 == IF percent.given THEN PercentBlockGeminiRag(t1, percent.value) ELSE t1
    IN  Respond(t, status_given, status, percent, t1, t2)

TaskInit ==
    /\ tk_variant \in Variants
    /\ tk_task = NewTask
    /\ tk_resp = 0
    /\ tk_calls = 0
    /\ CkIdle
    /\ BdIdle
    /\ RtIdle
    /\ HdIdle
    /\ SrIdle
    /\ RbIdle
    /\ XpIdle

\* One request, from the 404 tests to the commit and the response.
Handle(student_id, task_id, r) ==
    /\ tk_calls < MaxUpdates
    /\ tk_calls' = tk_calls + 1
    /\ IF TaskFound(student_id, task_id)
       THEN /\ tk_resp' = r.code
            /\ tk_task' = r.task
       ELSE /\ tk_resp' = 404
            /\ UNCHANGED tk_task
    /\ UNCHANGED <<tk_variant, ck_vars, bd_vars, rt_vars, hd_vars, sr_vars, rb_pc, xp_vars>>

update_task ==
    /\ tk_variant = "study_planner"
    /\ \E student_id \in RequestStudentIds, task_id \in RequestTaskIds,
          status \in StatusArgs, percent \in PercentArgs :
          Handle(student_id, task_id, update_task_result(tk_task, status, percent))

update_task_gemini_rag ==
    /\ tk_variant = "gemini_rag"
    /\ \E student_id \in RequestStudentIds, task_id \in RequestTaskIds,
          status \in StatusArgs, percent \in PercentArgs :
          Handle(student_id, task_id, update_task_result_gemini_rag(tk_task, status, percent))

TaskNext == update_task \/ update_task_gemini_rag

SpecTask == TaskInit /\ [][TaskNext]_vars

\* C30 (status and completion stay consistent): after any update_task calls on
\* a task created as (not_started, 0) the stored status is "done" exactly when
\* completion_percent is 100, and "not_started" only with completion_percent 0;
\* a call answered 400 or 404 leaves the stored task as it was.
C30_StatusMatchesCompletion ==
    /\ [](/\ (tk_task.status = "done") <=> (tk_task.completion_percent = 100)
          /\ (tk_task.status = "not_started") => (tk_task.completion_percent = 0))
    /\ [][(tk_calls' # tk_calls /\ tk_resp' \in {400, 404}) => tk_task' = tk_task]_vars

====
